---- MODULE Spec2Model ----
(***************************************************************************)
(* Asynchronous job orchestration of the video backend: the dispatcher     *)
(* endpoints of main.py, the job and variant stores of crud.py/models.py   *)
(* and the Celery task handlers of celery_tasks.py, run by a worker pool   *)
(* with late acknowledgement (celery_config.py).                           *)
(***************************************************************************)
EXTENDS Integers, Sequences, FiniteSets, TLC

(* ------------------------------ bounds -------------------------------- *)
\* Worker deaths (each one makes the broker redeliver the unacknowledged task).
MaxCrashes == 1
\* Database errors (a commit or a query that raises).
MaxDbFaults == 2
\* Length of the quality list of one conversion request.
MaxQualities == 1

\* The HTTP submissions the model follows: one of any endpoint (Spec), two
\* quality conversions in flight together (SpecTwoConversions).
ReqIds == {1}
TwoReqIds == {1, 2}
\* Values uuid4() can return for a job id: u0 is the id of the job that
\* processed video 1 when it was uploaded.
JobIds == {"u0", "u1", "u2"}
\* Video ids: video 1 was uploaded earlier, the others are free.
VideoIds == {1, 2}
\* The quality strings the model submits; 9999p is not a quality.
Qualities == {"720p", "480p", "9999p"}
\* The quality lists of a batch request (SpecBatch): one quality twice, two
\* distinct qualities, a quality and a string that is none.
BatchLists == {<<"720p", "720p">>, <<"720p", "480p">>, <<"720p", "9999p">>}

\* The strings get_quality_settings is called with (SpecSettings): the four
\* qualities and three strings that are none.
QualityStrings == {"1080p", "720p", "480p", "360p", "9999p", "720P", ""}

\* The strings create_processing_job is called with (SpecJobTypes): the seven
\* values, the five camelCase names, and four strings that are neither.
JobTypeStrings ==
    {"upload_process", "trim", "text_overlay", "image_overlay", "video_overlay",
     "watermark", "quality_conversion",
     "uploadProcess", "textOverlay", "imageOverlay", "videoOverlay", "qualityConversion",
     "TRIM", "waterMark", "resize", ""}

\* The arguments the two update_job_status are called with (SpecWrites): the
\* four statuses and two strings that are none; no result or one; no error
\* message, the empty one or one; the time of the call.
StatusStrings == {"pending", "processing", "completed", "failed", "done", "PENDING"}
ResultArgs == {[kind |-> "none"], [kind |-> "call"]}
ErrorArgs == {"none", "", "boom"}
WriteTimes == {1, 2}

\* The start and end times a trim request carries (seconds): Spec submits
\* the first set of start times, SpecTrim the second.
StartTimes == {-1, 1}
AllStartTimes == {-1, 0, 1}
EndTimes == {1, 2, 4}
\* The duration ffprobe reports for an uploaded file (seconds).
VideoDuration == 3

(* -------------------------- program constants ------------------------- *)
\* celery worker --concurrency
Concurrency == 2

JobTypeValues ==
    {"upload_process", "trim", "text_overlay", "image_overlay",
     "video_overlay", "watermark", "quality_conversion"}
JobStatusValues == {"pending", "processing", "completed", "failed"}
Terminal == {"completed", "failed"}

\* The async endpoints of main.py.
Endpoints == {"upload", "trim", "text", "image", "watermark", "quality"}

\* Absent values: a NULL column, a missing row.
NoData == [kind |-> "none"]
NoMessage == "none"
NoTime == -1
NoJob == [status |-> "absent"]
NoVideo == [file_path |-> "absent"]
Idle == [pc |-> "idle"]
NoRequest == [pc |-> "new"]

VARIABLES
    jobs,        \* processing_jobs: job id -> row, or NoJob
    videos,      \* videos: video id -> row, or NoVideo
    trimmed,     \* trimmed_videos rows, in insertion order
    overlays,    \* video_overlays rows
    watermarks,  \* video_watermarks rows
    variants,    \* video_variants rows
    files,       \* output artifacts on disk
    baked,       \* <<output, input>>: the file a transform rendered output from
    queue,       \* task ids held by the broker, not delivered
    exec,        \* task id -> the local state of its running execution, or Idle
    req,         \* request -> the position of the endpoint handling it
    crashes,     \* worker deaths so far
    dbFaults,    \* database errors so far
    deliveries,  \* task id -> times the broker delivered it
    audit        \* job id -> what the dispatcher did with that id

vars == <<jobs, videos, trimmed, overlays, watermarks, variants, files, baked,
          queue, exec, req, crashes, dbFaults, deliveries, audit>>

(* ------------------------------ helpers ------------------------------- *)
\* Outcomes of one database round trip: it may raise while faults remain.
DbOutcomes == IF dbFaults < MaxDbFaults THEN {TRUE, FALSE} ELSE {TRUE}

Running == {id \in JobIds : exec[id] # Idle}

\* JobType(job_type) with the camelCase fallback table.
JobTypeMapping(s) ==
    CASE s = "uploadProcess" -> "upload_process"
      [] s = "textOverlay" -> "text_overlay"
      [] s = "imageOverlay" -> "image_overlay"
      [] s = "videoOverlay" -> "video_overlay"
      [] s = "qualityConversion" -> "quality_conversion"
      [] OTHER -> s

\* The job type an endpoint passes to create_processing_job.
EndpointJobType(e) ==
    CASE e = "upload" -> "upload_process"
      [] e = "trim" -> "trim"
      [] e = "text" -> "text_overlay"
      [] e = "image" -> "image_overlay"
      [] e = "watermark" -> "watermark"
      [] e = "quality" -> "quality_conversion"

\* models.JobType(value): the member with that value, or ValueError.
JobType(value) == IF value \in JobTypeValues THEN value ELSE "ValueError"

\* job_type_enum that takes the string as it comes.
job_type_enum_Unchecked(job_type) == job_type

\* job_type_enum.value in create_processing_job: the lookup by value, then
\* the lookup of the mapped name; ValueError when both fail.
job_type_enum(job_type) ==
    IF JobType(job_type) # "ValueError"
    THEN JobType(job_type)
    ELSE JobType(JobTypeMapping(job_type))

\* The task an endpoint enqueues.
TaskOf(jobType) ==
    CASE jobType = "upload_process" -> "process_video_upload"
      [] jobType = "trim" -> "trim_video_async"
      [] jobType \in {"text_overlay", "image_overlay", "video_overlay"} -> "add_overlay_async"
      [] jobType = "watermark" -> "add_watermark_async"
      [] jobType = "quality_conversion" -> "convert_video_qualities"

\* All sequences over S of length at most n.
SeqUpTo(S, n) == UNION {[1..k -> S] : k \in 0..n}


Min(S) == CHOOSE x \in S : \A y \in S : x <= y

(* ------------------------------- files -------------------------------- *)
\* A name is a tuple <<directory, owner, number, index>>.
\* uploads/<uuid4><ext>: the source file of video v.
UploadFile(v) == <<"uploads", "-", v, 0>>
\* processed/<prefix>_<uuid4><ext>: a fresh name for each call; the uuid4 is
\* the pair (task, delivery), n the position in a conversion batch.
OutFile(id, attempt, n) == <<"processed", id, attempt, n>>
\* processing/<quality>_<video>.mp4: the path a placeholder variant carries.
PlaceholderFile(q, v) == <<"processing", q, v, 0>>

(* ----------------------------- job store ------------------------------ *)
\* models.ProcessingJob as create_processing_job fills it.
NewJobRow(job_type, video_id, input_data, t) ==
    [job_type |-> job_type,
     status |-> "pending",
     video_id |-> video_id,
     input_data |-> input_data,
     result_data |-> NoData,
     error_message |-> NoMessage,
     created_at |-> t,
     started_at |-> NoTime,
     completed_at |-> NoTime]

\* UpdateJobRow without the test "not job.started_at".
UpdateJobRow_AlwaysStamp(job, status, result_data, error_message, t) ==
    LET j1 == [job EXCEPT !.status = status]
        j2 == IF status = "processing"
              THEN [j1 EXCEPT !.started_at = t]
              ELSE IF status \in {"completed", "failed"}
                   THEN [j1 EXCEPT !.completed_at = t]
                   ELSE j1
        j3 == IF result_data # NoData
              THEN [j2 EXCEPT !.result_data = result_data]
              ELSE j2
    IN IF error_message # NoMessage /\ error_message # ""
       THEN [j3 EXCEPT !.error_message = error_message]
       ELSE j3

\* UpdateJobRow that forgets the parameters of a job once it is terminal.
UpdateJobRow_DropInput(job, status, result_data, error_message, t) ==
    LET j1 == [job EXCEPT !.status = status]
        j2 == IF status = "processing" /\ j1.started_at = NoTime
              THEN [j1 EXCEPT !.started_at = t]
              ELSE IF status \in {"completed", "failed"}
                   THEN [j1 EXCEPT !.completed_at = t, !.input_data = NoData]
                   ELSE j1
        j3 == IF result_data # NoData
              THEN [j2 EXCEPT !.result_data = result_data]
              ELSE j2
    IN IF error_message # NoMessage /\ error_message # ""
       THEN [j3 EXCEPT !.error_message = error_message]
       ELSE j3

\* celery_tasks.update_job_status on the row it found.
UpdateJobRow(job, status, result_data, error_message, t) ==
    LET j1 == [job EXCEPT !.status = status]
        j2 == IF status = "processing" /\ j1.started_at = NoTime
              THEN [j1 EXCEPT !.started_at = t]
              ELSE IF status \in {"completed", "failed"}
                   THEN [j1 EXCEPT !.completed_at = t]
                   ELSE j1
        j3 == IF result_data # NoData
              THEN [j2 EXCEPT !.result_data = result_data]
              ELSE j2
    IN IF error_message # NoMessage /\ error_message # ""
       THEN [j3 EXCEPT !.error_message = error_message]
       ELSE j3

\* celery_tasks.update_job_status: nothing happens when no row has the id.
update_job_status(table, job_id, status, result_data, error_message, t) ==
    IF table[job_id] # NoJob
    THEN [table EXCEPT
            ![job_id] = UpdateJobRow(table[job_id], status, result_data, error_message, t)]
    ELSE table

\* models.JobStatus(value): the member with that value, or ValueError.
JobStatus(value) == IF value \in JobStatusValues THEN value ELSE "ValueError"

\* CrudUpdateJobRow that stamps started_at at every write of processing.
CrudUpdateJobRow_AlwaysStamp(job, status, result_data, error_message, t) ==
    LET status_enum == JobStatus(status)
        j1 == [job EXCEPT !.status = status_enum]
        j2 == IF status_enum = "processing"
              THEN [j1 EXCEPT !.started_at = t]
              ELSE IF status_enum \in {"completed", "failed"}
                   THEN [j1 EXCEPT !.completed_at = t]
                   ELSE j1
        j3 == IF result_data # NoData
              THEN [j2 EXCEPT !.result_data = result_data]
              ELSE j2
    IN IF error_message # NoMessage /\ error_message # ""
       THEN [j3 EXCEPT !.error_message = error_message]
       ELSE j3

\* crud.update_job_status on the row it found, for a status that is a
\* JobStatus value: status_enum.value is stored, the timestamps follow
\* status_enum.
CrudUpdateJobRow(job, status, result_data, error_message, t) ==
    LET status_enum == JobStatus(status)
        j1 == [job EXCEPT !.status = status_enum]
        j2 == IF status_enum = "processing" /\ j1.started_at = NoTime
              THEN [j1 EXCEPT !.started_at = t]
              ELSE IF status_enum \in {"completed", "failed"}
                   THEN [j1 EXCEPT !.completed_at = t]
                   ELSE j1
        j3 == IF result_data # NoData
              THEN [j2 EXCEPT !.result_data = result_data]
              ELSE j2
    IN IF error_message # NoMessage /\ error_message # ""
       THEN [j3 EXCEPT !.error_message = error_message]
       ELSE j3

\* crud.update_job_status: the error it raises, if any, and the row of the
\* job after the call. A string that is no status raises ValueError before
\* anything is assigned.
crud_update_job_status(table, job_id, status, result_data, error_message, t) ==
    IF table[job_id] = NoJob
    THEN [error |-> NoMessage, job |-> NoJob]
    ELSE IF JobStatus(status) = "ValueError"
         THEN [error |-> "ValueError", job |-> table[job_id]]
         ELSE [error |-> NoMessage,
               job |-> CrudUpdateJobRow(table[job_id], status, result_data, error_message, t)]

(* --------------------------- variant store ---------------------------- *)
\* quality_dimensions of mark_variants_processing.
QualityDimensions ==
    [q \in {"1080p", "720p", "480p", "360p"} |->
        CASE q = "1080p" -> <<1920, 1080>>
          [] q = "720p" -> <<1280, 720>>
          [] q = "480p" -> <<854, 480>>
          [] q = "360p" -> <<640, 360>>]

\* get_quality_settings with no default: None for any other string.
get_quality_settings_NoDefault(quality) ==
    CASE quality = "1080p" -> <<1920, 1080, "5000k">>
      [] quality = "720p" -> <<1280, 720, "3000k">>
      [] quality = "480p" -> <<854, 480, "1500k">>
      [] quality = "360p" -> <<640, 360, "800k">>
      [] OTHER -> <<>>

\* get_quality_settings: 720p's settings for any other string.
get_quality_settings(quality) ==
    CASE quality = "1080p" -> <<1920, 1080, "5000k">>
      [] quality = "720p" -> <<1280, 720, "3000k">>
      [] quality = "480p" -> <<854, 480, "1500k">>
      [] quality = "360p" -> <<640, 360, "800k">>
      [] OTHER -> <<1280, 720, "3000k">>

\* The rows of (video, quality), by position in the table.
VariantRows(tbl, v, q) ==
    {i \in 1..Len(tbl) : tbl[i].original_video_id = v /\ tbl[i].quality = q}

\* The placeholder row mark_variants_processing adds for (video, quality).
PlaceholderRow(v, q) ==
    [original_video_id |-> v,
     quality |-> q,
     file_path |-> PlaceholderFile(q, v),
     width |-> QualityDimensions[q][1],
     height |-> QualityDimensions[q][2],
     bitrate |-> "none",
     is_processing |-> TRUE]

\* The rows the session adds: one per list element whose query found no
\* committed row (autoflush is off, so a pending row is never found).
RECURSIVE PendingPlaceholders(_, _, _)
PendingPlaceholders(tbl, v, qs) ==
    IF qs = <<>> THEN <<>>
    ELSE LET q == Head(qs)
             rest == PendingPlaceholders(tbl, v, Tail(qs))
         IN IF q \in DOMAIN QualityDimensions /\ VariantRows(tbl, v, q) = {}
            THEN <<PlaceholderRow(v, q)>> \o rest
            ELSE rest

\* mark_variants_processing that flags the rows it found and adds none.
mark_variants_processing_FlagOnly(seen, tbl, v, qs) ==
    LET listed == {qs[k] : k \in 1..Len(qs)} \cap DOMAIN QualityDimensions
        first == {Min(VariantRows(seen, v, q)) : q \in {x \in listed : VariantRows(seen, v, x) # {}}}
    IN [i \in 1..Len(tbl) |->
          IF i \in first THEN [tbl[i] EXCEPT !.is_processing = TRUE] ELSE tbl[i]]

\* crud.mark_variants_processing, as committed on the table tbl by a session
\* whose queries saw the rows seen (the table when they ran; rows are only
\* ever added, so seen is a prefix of tbl): the first row seen of each listed
\* (video, quality) is flagged, the added rows follow.
mark_variants_processing(seen, tbl, v, qs) ==
    LET listed == {qs[k] : k \in 1..Len(qs)} \cap DOMAIN QualityDimensions
        first == {Min(VariantRows(seen, v, q)) : q \in {x \in listed : VariantRows(seen, v, x) # {}}}
        flagged == [i \in 1..Len(tbl) |->
                      IF i \in first THEN [tbl[i] EXCEPT !.is_processing = TRUE] ELSE tbl[i]]
    IN flagged \o PendingPlaceholders(seen, v, qs)

\* No row: what .first() answers when the filter matches nothing.
NoVariant == [quality |-> "absent"]

\* crud.get_variant_by_quality: the rows .first() can answer. The query has no
\* ORDER BY, so any row of (video, quality) can come first.
get_variant_by_quality(tbl, v, q) ==
    IF VariantRows(tbl, v, q) = {}
    THEN {NoVariant}
    ELSE {tbl[i] : i \in VariantRows(tbl, v, q)}

\* The row convert_video_qualities adds after a successful conversion.
ConvertedRow(v, q, path) ==
    [original_video_id |-> v,
     quality |-> q,
     file_path |-> path,
     width |-> get_quality_settings(q)[1],
     height |-> get_quality_settings(q)[2],
     bitrate |-> get_quality_settings(q)[3],
     is_processing |-> FALSE]

(* ----------------------------- video store ---------------------------- *)
\* models.Video as create_video fills it for the async upload.
NewVideoRow(v) ==
    [file_path |-> UploadFile(v), has_metadata |-> FALSE, is_processed |-> FALSE]

\* video.duration: what process_video_upload stored, None (falsy, as 0 is)
\* until it ran or when get_video_info answered {}.
Duration(row) == IF row.has_metadata THEN VideoDuration ELSE 0

\* The next value of the videos.id sequence.
NextVideoId == Min({v \in VideoIds : videos[v] = NoVideo})


(* ------------------------------ dispatcher ---------------------------- *)
\* datetime.utcnow() when a job row is created: before any delivery.
CreationTime == 0

NoAudit == [inserted |-> 0, created_status |-> "none", enqueued |-> 0, returned |-> FALSE]

\* The stores after video 1 went through /async/upload and its job u0 ran to
\* completion; nothing else was submitted yet.
Stores0 ==
    /\ jobs = [id \in JobIds |->
                 IF id = "u0"
                 THEN [NewJobRow("upload_process", 1, [video_id |-> 1, qualities |-> <<>>],
                                 CreationTime)
                       EXCEPT !.status = "completed", !.started_at = 1, !.completed_at = 1,
                              !.result_data = [kind |-> "upload", video_id |-> 1,
                                               metadata |-> "metadata"]]
                 ELSE NoJob]
    /\ videos = [v \in VideoIds |->
                   IF v = 1
                   THEN [NewVideoRow(1) EXCEPT !.has_metadata = TRUE, !.is_processed = TRUE]
                   ELSE NoVideo]
    /\ trimmed = <<>>
    /\ overlays = <<>>
    /\ watermarks = <<>>
    /\ variants = <<>>
    /\ files = {UploadFile(1)}
    /\ baked = {}
    /\ queue = {}
    /\ exec = [id \in JobIds |-> Idle]
    /\ crashes = 0
    /\ dbFaults = 0
    /\ deliveries = [id \in JobIds |-> IF id = "u0" THEN 1 ELSE 0]
    /\ audit = [id \in JobIds |->
                  IF id = "u0"
                  THEN [inserted |-> 1, created_status |-> "pending", enqueued |-> 1,
                        returned |-> TRUE]
                  ELSE NoAudit]

Init == Stores0 /\ req = [r \in ReqIds |-> NoRequest]

\* The same stores with two submissions about to arrive.
InitTwo == Stores0 /\ req = [r \in TwoReqIds |-> NoRequest]

\* The request as the endpoint holds it once the input was accepted.
Accepted(e, v, qs) ==
    [pc |-> "create", endpoint |-> e, video_id |-> v,
     job_data |-> [video_id |-> v, qualities |-> qs], job_id |-> "none"]

\* An endpoint that raised: 404 for an unknown video, 500 otherwise.
Refused(e, v, code) ==
    [pc |-> "refused", endpoint |-> e, video_id |-> v, code |-> code]

\* upload_video_async up to create_video: the file is saved, the video row
\* committed; an error removes the file and answers 500.
ReceiveUpload(r) ==
    /\ req[r] = NoRequest
    /\ \E v \in VideoIds : videos[v] = NoVideo
    /\ LET v == NextVideoId IN
       \E ok \in DbOutcomes :
          IF ok
          THEN /\ videos' = [videos EXCEPT ![v] = NewVideoRow(v)]
               /\ files' = files \cup {UploadFile(v)}
               /\ req' = [req EXCEPT ![r] = Accepted("upload", v, <<>>)]
               /\ UNCHANGED dbFaults
          ELSE /\ req' = [req EXCEPT ![r] = Refused("upload", v, 500)]
               /\ dbFaults' = dbFaults + 1
               /\ UNCHANGED <<videos, files>>
    /\ UNCHANGED <<jobs, trimmed, overlays, watermarks, variants, baked, queue,
                   exec, crashes, deliveries, audit>>

\* TimestampError without the test of the end time against the start time.
TimestampError_NoOrderCheck(start_time, end_time, duration) ==
    IF start_time < 0
    THEN "Invalid timestamps"
    ELSE IF duration # 0 /\ end_time > duration
         THEN "End time exceeds video duration"
         ELSE "none"

\* The two timestamp tests of trim_video_async_endpoint: the detail of the
\* 400 they raise, or "none".
TimestampError(start_time, end_time, duration) ==
    IF start_time < 0 \/ end_time <= start_time
    THEN "Invalid timestamps"
    ELSE IF duration # 0 /\ end_time > duration
         THEN "End time exceeds video duration"
         ELSE "none"

\* job_data of the trim endpoint.
TrimJobData(v, start_time, end_time) ==
    [video_id |-> v, qualities |-> <<>>, start_time |-> start_time, end_time |-> end_time]

\* trim_video_async_endpoint up to job_data, for a request drawn from the
\* given video ids and times: the video must exist, the timestamps be valid.
ReceiveTrimOf(r, ids, starts, ends) ==
    /\ req[r] = NoRequest
    /\ \E v \in ids, start_time \in starts, end_time \in ends :
          req' = [req EXCEPT ![r] =
                    IF videos[v] = NoVideo
                    THEN Refused("trim", v, 404)
                    ELSE IF TimestampError(start_time, end_time, Duration(videos[v])) # "none"
                         THEN [detail |-> TimestampError(start_time, end_time,
                                                         Duration(videos[v])),
                               job_data |-> TrimJobData(v, start_time, end_time)]
                              @@ Refused("trim", v, 400)
                         ELSE [Accepted("trim", v, <<>>) EXCEPT
                                 !.job_data = TrimJobData(v, start_time, end_time)]]
    /\ UNCHANGED <<jobs, videos, trimmed, overlays, watermarks, variants, files, baked,
                   queue, exec, crashes, dbFaults, deliveries, audit>>

ReceiveTrim(r) == ReceiveTrimOf(r, VideoIds, StartTimes, EndTimes)

\* The same endpoint with more start times.
ReceiveAnyTrim(r) == ReceiveTrimOf(r, VideoIds, AllStartTimes, EndTimes)

\* ReceiveJob without the test "video is None".
ReceiveJob_NoCheck(r) ==
    /\ req[r] = NoRequest
    /\ \E e \in Endpoints \ {"upload", "trim", "quality"}, v \in VideoIds :
          req' = [req EXCEPT ![r] = Accepted(e, v, <<>>)]
    /\ UNCHANGED <<jobs, videos, trimmed, overlays, watermarks, variants, files, baked,
                   queue, exec, crashes, dbFaults, deliveries, audit>>

\* The overlay and watermark endpoints up to job_data, for a request drawn
\* from the given endpoints and video ids: the video must exist.
ReceiveJobOf(r, endpoints, ids) ==
    /\ req[r] = NoRequest
    /\ \E e \in endpoints, v \in ids :
          req' = [req EXCEPT ![r] =
                    IF videos[v] = NoVideo
                    THEN Refused(e, v, 404)
                    ELSE Accepted(e, v, <<>>)]
    /\ UNCHANGED <<jobs, videos, trimmed, overlays, watermarks, variants, files, baked,
                   queue, exec, crashes, dbFaults, deliveries, audit>>

ReceiveJob(r) == ReceiveJobOf(r, Endpoints \ {"upload", "trim", "quality"}, VideoIds)

\* A text overlay or a watermark for video 1.
ReceiveChained(r) == ReceiveJobOf(r, {"text", "watermark"}, {1})

\* The request inside mark_variants_processing: its queries have run on the
\* first `seen` rows of the table, its commit has not.
Reserving(v, qs) ==
    [seen |-> Len(variants)] @@ [Accepted("quality", v, qs) EXCEPT !.pc = "reserve"]

\* schemas.VideoQualityEnum
VideoQualityEnum == {"1080p", "720p", "480p", "360p"}

\* QualityRequest that takes any list of strings.
ValidQualityRequest_AnyString(qs) == TRUE

\* QualityRequest.qualities: List[VideoQualityEnum]; a body with any other
\* string is answered 422 before the endpoint function is called.
ValidQualityRequest(qs) == \A k \in 1..Len(qs) : qs[k] \in VideoQualityEnum

\* convert_video_qualities_endpoint up to the queries of
\* mark_variants_processing, for a request drawn from the given video ids and
\* quality lists: the body must validate, the video must exist.
ReceiveQualitiesOf(r, ids, lists) ==
    /\ req[r] = NoRequest
    /\ \E v \in ids, qs \in lists :
          req' = [req EXCEPT ![r] =
                    IF ~ValidQualityRequest(qs)
                    THEN [job_data |-> [video_id |-> v, qualities |-> qs]]
                         @@ Refused("quality", v, 422)
                    ELSE IF videos[v] = NoVideo
                         THEN Refused("quality", v, 404)
                         ELSE Reserving(v, qs)]
    /\ UNCHANGED <<jobs, videos, trimmed, overlays, watermarks, variants, files, baked,
                   queue, exec, crashes, dbFaults, deliveries, audit>>

ReceiveQualities(r) == ReceiveQualitiesOf(r, VideoIds, SeqUpTo(Qualities, MaxQualities))

\* Scenario D: the request names video 1 and the one quality 720p.
ReceiveSameQuality(r) == ReceiveQualitiesOf(r, {1}, {<<"720p">>})

\* The request names several qualities at once.
ReceiveBatch(r) == ReceiveQualitiesOf(r, VideoIds, BatchLists)

\* db.commit() of mark_variants_processing and job_data: the placeholders are
\* added and the rows found are flagged; a commit that raises ends the endpoint.
Reserve(r) ==
    /\ req[r].pc = "reserve"
    /\ \E ok \in DbOutcomes :
          IF ok
          THEN /\ variants' = mark_variants_processing(SubSeq(variants, 1, req[r].seen),
                                                       variants, req[r].video_id,
                                                       req[r].job_data.qualities)
               /\ req' = [req EXCEPT ![r].pc = "create"]
               /\ UNCHANGED dbFaults
          ELSE /\ req' = [req EXCEPT ![r] = Refused("quality", req[r].video_id, 500)]
               /\ dbFaults' = dbFaults + 1
               /\ UNCHANGED variants
    /\ UNCHANGED <<jobs, videos, trimmed, overlays, watermarks, files, baked, queue,
                   exec, crashes, deliveries, audit>>

\* The except clause of upload_video_async: the saved file is removed.
AfterError(r, fs) ==
    IF req[r].endpoint = "upload" THEN fs \ {UploadFile(req[r].video_id)} ELSE fs

\* str(uuid.uuid4()): an id no row has, or (a collision) the id of a row.
Uuid4 ==
    {id \in JobIds : jobs[id] # NoJob}
        \cup (IF \E id \in JobIds : jobs[id] = NoJob
              THEN {CHOOSE id \in JobIds : jobs[id] = NoJob}
              ELSE {})

\* CreateJob with no primary key on processing_jobs.id: the row of a taken id
\* is replaced.
CreateJob_NoPrimaryKey(r) ==
    /\ req[r].pc = "create"
    /\ \E id \in Uuid4, ok \in DbOutcomes :
          IF ok
          THEN /\ jobs' = [jobs EXCEPT ![id] =
                             NewJobRow(JobTypeMapping(EndpointJobType(req[r].endpoint)),
                                       req[r].video_id, req[r].job_data, CreationTime)]
               /\ audit' = [audit EXCEPT ![id].inserted = @ + 1,
                                         ![id].created_status = jobs'[id].status]
               /\ req' = [req EXCEPT ![r].pc = "enqueue", ![r].job_id = id]
               /\ UNCHANGED <<files, dbFaults>>
          ELSE /\ req' = [req EXCEPT ![r] = Refused(req[r].endpoint, req[r].video_id, 500)]
               /\ files' = AfterError(r, files)
               /\ dbFaults' = dbFaults + 1
               /\ UNCHANGED <<jobs, audit>>
    /\ UNCHANGED <<videos, trimmed, overlays, watermarks, variants, baked, queue,
                   exec, crashes, deliveries>>

\* CreateJob in an endpoint that swallows the error of create_processing_job
\* and goes on to apply_async with the id it generated.
CreateJob_SwallowError(r) ==
    /\ req[r].pc = "create"
    /\ \E id \in Uuid4, ok \in DbOutcomes :
          /\ IF ok /\ jobs[id] = NoJob
             THEN /\ jobs' = [jobs EXCEPT ![id] =
                                NewJobRow(JobTypeMapping(EndpointJobType(req[r].endpoint)),
                                          req[r].video_id, req[r].job_data, CreationTime)]
                  /\ audit' = [audit EXCEPT ![id].inserted = @ + 1,
                                            ![id].created_status = jobs'[id].status]
                  /\ UNCHANGED dbFaults
             ELSE /\ dbFaults' = IF ok THEN dbFaults ELSE dbFaults + 1
                  /\ UNCHANGED <<jobs, audit>>
          /\ req' = [req EXCEPT ![r].pc = "enqueue", ![r].job_id = id]
          /\ UNCHANGED files
    /\ UNCHANGED <<videos, trimmed, overlays, watermarks, variants, baked, queue,
                   exec, crashes, deliveries>>

\* crud.create_processing_job as the endpoint calls it: a uuid4 id, the row
\* committed in pending; a commit that raises (the id is taken, the database
\* failed) leaves the store as it was and ends the endpoint.
CreateJob(r) ==
    /\ req[r].pc = "create"
    /\ \E id \in Uuid4, ok \in DbOutcomes :
          IF ok /\ jobs[id] = NoJob
          THEN /\ jobs' = [jobs EXCEPT ![id] =
                             NewJobRow(JobTypeMapping(EndpointJobType(req[r].endpoint)),
                                       req[r].video_id, req[r].job_data, CreationTime)]
               /\ audit' = [audit EXCEPT ![id].inserted = @ + 1,
                                         ![id].created_status = jobs'[id].status]
               /\ req' = [req EXCEPT ![r].pc = "enqueue", ![r].job_id = id]
               /\ UNCHANGED <<files, dbFaults>>
          ELSE /\ req' = [req EXCEPT ![r] = Refused(req[r].endpoint, req[r].video_id, 500)]
               /\ files' = AfterError(r, files)
               /\ dbFaults' = IF ok THEN dbFaults ELSE dbFaults + 1
               /\ UNCHANGED <<jobs, audit>>
    /\ UNCHANGED <<videos, trimmed, overlays, watermarks, variants, baked, queue,
                   exec, crashes, deliveries>>

\* Enqueue in an endpoint that marks the job failed when apply_async raises.
Enqueue_FailJobOnError(r) ==
    /\ req[r].pc = "enqueue"
    /\ LET id == req[r].job_id IN
       \E sent \in BOOLEAN :
          IF sent
          THEN /\ queue' = queue \cup {id}
               /\ UNCHANGED jobs
               /\ audit' = [audit EXCEPT ![id].enqueued = @ + 1, ![id].returned = TRUE]
               /\ req' = [req EXCEPT ![r].pc = "done"]
               /\ UNCHANGED files
          ELSE /\ req' = [req EXCEPT ![r] = Refused(req[r].endpoint, req[r].video_id, 500)]
               /\ files' = AfterError(r, files)
               /\ jobs' = [jobs EXCEPT ![id].status = "failed"]
               /\ UNCHANGED <<queue, audit>>
    /\ UNCHANGED <<videos, trimmed, overlays, watermarks, variants, baked,
                   exec, crashes, dbFaults, deliveries>>

\* <task>.apply_async(args, task_id=job.id) and the response; when the broker
\* cannot be reached the endpoint raises and the job row stays as it is.
Enqueue(r) ==
    /\ req[r].pc = "enqueue"
    /\ LET id == req[r].job_id IN
       \E sent \in BOOLEAN :
          IF sent
          THEN /\ queue' = queue \cup {id}
               /\ audit' = [audit EXCEPT ![id].enqueued = @ + 1, ![id].returned = TRUE]
               /\ req' = [req EXCEPT ![r].pc = "done"]
               /\ UNCHANGED files
          ELSE /\ req' = [req EXCEPT ![r] = Refused(req[r].endpoint, req[r].video_id, 500)]
               /\ files' = AfterError(r, files)
               /\ UNCHANGED <<queue, audit>>
    /\ UNCHANGED <<jobs, videos, trimmed, overlays, watermarks, variants, baked,
                   exec, crashes, dbFaults, deliveries>>


(* ------------------------------- workers ------------------------------ *)
\* The locals of a task function when the worker calls it.
Started(id) ==
    [pc |-> "begin", err |-> NoMessage, success |-> "none", input |-> <<>>,
     out |-> OutFile(id, deliveries[id] + 1, 0), rec |-> 0, idx |-> 1,
     results |-> <<>>, result |-> NoData]

JobData(id) == jobs[id].input_data
Task(id) == TaskOf(jobs[id].job_type)

\* datetime.utcnow() in a task: time is counted in deliveries of the task, so
\* two executions of one task read different times.
Now(id) == deliveries[id]

\* What one step of a task leaves alone besides the stores it names.
WorkerFrame == <<queue, req, crashes, deliveries, audit>>

\* The except clause is entered with the error e.
Raised(id, e) == [exec EXCEPT ![id].pc = "except", ![id].err = e]

\* The broker hands a queued task to a free worker process.
Deliver(id) ==
    /\ id \in queue
    /\ Cardinality(Running) < Concurrency
    /\ queue' = queue \ {id}
    /\ exec' = [exec EXCEPT ![id] = Started(id)]
    /\ deliveries' = [deliveries EXCEPT ![id] = @ + 1]
    /\ UNCHANGED <<jobs, videos, trimmed, overlays, watermarks, variants, files, baked,
                   req, crashes, dbFaults, audit>>

\* update_job_status(db, job_id, "processing"), the first statement of every task.
Begin(id) ==
    /\ exec[id].pc = "begin"
    /\ \E ok \in DbOutcomes :
          IF ok
          THEN /\ jobs' = update_job_status(jobs, id, "processing", NoData, NoMessage, Now(id))
               /\ exec' = [exec EXCEPT ![id].pc = "body"]
               /\ UNCHANGED dbFaults
          ELSE /\ exec' = Raised(id, "database error")
               /\ dbFaults' = dbFaults + 1
               /\ UNCHANGED jobs
    /\ UNCHANGED <<videos, trimmed, overlays, watermarks, variants, files, baked>>
    /\ UNCHANGED WorkerFrame

\* process_video_upload between the two status writes: get_video_info answers
\* the metadata, or {} when ffprobe failed; the video row takes what it answered.
ProcessUpload(id) ==
    /\ exec[id].pc = "body"
    /\ Task(id) = "process_video_upload"
    /\ LET v == jobs[id].video_id IN
       \E info \in {"metadata", "empty"}, ok \in DbOutcomes :
          IF ok
          THEN /\ videos' = IF videos[v] # NoVideo
                            THEN [videos EXCEPT ![v].has_metadata = (info = "metadata"),
                                                ![v].is_processed = TRUE]
                            ELSE videos
               /\ exec' = [exec EXCEPT
                             ![id].pc = "complete",
                             ![id].success = IF info = "metadata" THEN "ok" ELSE "fail",
                             ![id].result = [kind |-> "upload", video_id |-> v,
                                             metadata |-> info]]
               /\ UNCHANGED dbFaults
          ELSE /\ exec' = [Raised(id, "database error") EXCEPT
                             ![id].success = IF info = "metadata" THEN "ok" ELSE "fail"]
               /\ dbFaults' = dbFaults + 1
               /\ UNCHANGED videos
    /\ UNCHANGED <<jobs, trimmed, overlays, watermarks, variants, files, baked>>
    /\ UNCHANGED WorkerFrame

\* overlay_type of the job_data the overlay endpoints build.
OverlayType(job_type) ==
    CASE job_type = "text_overlay" -> "text"
      [] job_type = "image_overlay" -> "image"
      [] job_type = "video_overlay" -> "video"

\* The error each task raises when its transform answers False.
TransformError(job_type) ==
    CASE TaskOf(job_type) = "trim_video_async" -> "Failed to trim video"
      [] TaskOf(job_type) = "add_overlay_async"
            -> "Failed to add " \o OverlayType(job_type) \o " overlay"
      [] TaskOf(job_type) = "add_watermark_async" -> "Failed to add watermark"

\* The program point after a successful transform.
AfterTransform(task) ==
    CASE task = "trim_video_async" -> "save_trimmed"
      [] task = "add_overlay_async" -> "save_overlay"
      [] task = "add_watermark_async" -> "save_path"

\* trim_video_async, add_overlay_async, add_watermark_async from get_video to
\* the success test: the VideoService call answers True with the output
\* written, or False (any error inside it is caught there) with the output
\* written in part or not at all.
Transform(id) ==
    /\ exec[id].pc = "body"
    /\ Task(id) \in {"trim_video_async", "add_overlay_async", "add_watermark_async"}
    /\ LET v == JobData(id).video_id IN
       IF videos[v] = NoVideo
       THEN /\ exec' = Raised(id, "Video not found")
            /\ UNCHANGED <<files, baked>>
       ELSE \E success \in BOOLEAN, wrote \in BOOLEAN :
               /\ success => wrote
               /\ files' = IF wrote THEN files \cup {exec[id].out} ELSE files
               /\ baked' = IF wrote
                           THEN baked \cup {<<exec[id].out, videos[v].file_path>>}
                           ELSE baked
               /\ exec' = IF success
                          THEN [exec EXCEPT ![id].pc = AfterTransform(Task(id)),
                                            ![id].success = "ok",
                                            ![id].input = videos[v].file_path]
                          ELSE [Raised(id, TransformError(jobs[id].job_type)) EXCEPT
                                            ![id].success = "fail",
                                            ![id].input = videos[v].file_path]
    /\ UNCHANGED <<jobs, videos, trimmed, overlays, watermarks, variants, dbFaults>>
    /\ UNCHANGED WorkerFrame

\* TrimmedRow with the end time for duration.
TrimmedRow_DurationIsEnd(id) ==
    [original_video_id |-> JobData(id).video_id,
     file_path |-> exec[id].out,
     start_time |-> JobData(id).start_time,
     end_time |-> JobData(id).end_time,
     duration |-> JobData(id).end_time]

\* The row trim_video_async hands to create_trimmed_video:
\* duration = end_time - start_time.
TrimmedRow(id) ==
    [original_video_id |-> JobData(id).video_id,
     file_path |-> exec[id].out,
     start_time |-> JobData(id).start_time,
     end_time |-> JobData(id).end_time,
     duration |-> JobData(id).end_time - JobData(id).start_time]

\* crud.create_trimmed_video and result_data of trim_video_async.
SaveTrimmed(id) ==
    /\ exec[id].pc = "save_trimmed"
    /\ \E ok \in DbOutcomes :
          IF ok
          THEN /\ trimmed' = Append(trimmed, TrimmedRow(id))
               /\ exec' = [exec EXCEPT
                             ![id].pc = "complete",
                             ![id].rec = Len(trimmed) + 1,
                             ![id].result = [kind |-> "trim",
                                             trimmed_video_id |-> Len(trimmed) + 1,
                                             file_path |-> exec[id].out,
                                             duration |-> TrimmedRow(id).duration]]
               /\ UNCHANGED dbFaults
          ELSE /\ exec' = Raised(id, "database error")
               /\ dbFaults' = dbFaults + 1
               /\ UNCHANGED trimmed
    /\ UNCHANGED <<jobs, videos, overlays, watermarks, variants, files, baked>>
    /\ UNCHANGED WorkerFrame

\* add_overlay_async: the VideoOverlay row is committed right after the transform.
SaveOverlay(id) ==
    /\ exec[id].pc = "save_overlay"
    /\ \E ok \in DbOutcomes :
          IF ok
          THEN /\ overlays' = Append(overlays, [video_id |-> JobData(id).video_id,
                                                overlay_type |-> OverlayType(jobs[id].job_type)])
               /\ exec' = [exec EXCEPT ![id].pc = "save_path", ![id].rec = Len(overlays) + 1]
               /\ UNCHANGED dbFaults
          ELSE /\ exec' = Raised(id, "database error")
               /\ dbFaults' = dbFaults + 1
               /\ UNCHANGED overlays
    /\ UNCHANGED <<jobs, videos, trimmed, watermarks, variants, files, baked>>
    /\ UNCHANGED WorkerFrame

\* video.file_path = output_path; db.commit() of the overlay and watermark
\* tasks; the overlay task then has its result, the watermark task goes on to
\* its VideoWatermark row.
SavePath(id) ==
    /\ exec[id].pc = "save_path"
    /\ LET v == JobData(id).video_id IN
       \E ok \in DbOutcomes :
          IF ok
          THEN /\ videos' = [videos EXCEPT ![v].file_path = exec[id].out]
               /\ exec' = IF Task(id) = "add_overlay_async"
                          THEN [exec EXCEPT
                                  ![id].pc = "complete",
                                  ![id].result = [kind |-> "overlay",
                                                  overlay_id |-> exec[id].rec,
                                                  output_file |-> exec[id].out]]
                          ELSE [exec EXCEPT ![id].pc = "save_watermark"]
               /\ UNCHANGED dbFaults
          ELSE /\ exec' = Raised(id, "database error")
               /\ dbFaults' = dbFaults + 1
               /\ UNCHANGED videos
    /\ UNCHANGED <<jobs, trimmed, overlays, watermarks, variants, files, baked>>
    /\ UNCHANGED WorkerFrame

\* add_watermark_async: the VideoWatermark row and result_data.
SaveWatermark(id) ==
    /\ exec[id].pc = "save_watermark"
    /\ \E ok \in DbOutcomes :
          IF ok
          THEN /\ watermarks' = Append(watermarks, [video_id |-> JobData(id).video_id])
               /\ exec' = [exec EXCEPT
                             ![id].pc = "complete",
                             ![id].rec = Len(watermarks) + 1,
                             ![id].result = [kind |-> "watermark",
                                             watermark_id |-> Len(watermarks) + 1,
                                             output_file |-> exec[id].out]]
               /\ UNCHANGED dbFaults
          ELSE /\ exec' = Raised(id, "database error")
               /\ dbFaults' = dbFaults + 1
               /\ UNCHANGED watermarks
    /\ UNCHANGED <<jobs, videos, trimmed, overlays, variants, files, baked>>
    /\ UNCHANGED WorkerFrame


\* TotalSuccessful that counts every entry.
TotalSuccessful_CountAll(results) == Len(results)

\* sum(1 for r in results if r.get('success'))
TotalSuccessful(results) ==
    Cardinality({k \in 1..Len(results) : results[k].success})

\* result_data of convert_video_qualities.
ConversionResult(v, results) ==
    [kind |-> "quality", video_id |-> v, conversions |-> results,
     total_successful |-> TotalSuccessful(results)]

\* convert_video_qualities from get_video to the loop: an empty list goes
\* straight to the result.
ConvertStart(id) ==
    /\ exec[id].pc = "body"
    /\ Task(id) = "convert_video_qualities"
    /\ LET v == JobData(id).video_id IN
       exec' = IF videos[v] = NoVideo
               THEN Raised(id, "Video not found")
               ELSE IF JobData(id).qualities = <<>>
                    THEN [exec EXCEPT ![id].pc = "complete",
                                      ![id].result = ConversionResult(v, <<>>)]
                    ELSE [exec EXCEPT ![id].pc = "convert",
                                      ![id].input = videos[v].file_path]
    /\ UNCHANGED <<jobs, videos, trimmed, overlays, watermarks, variants, files, baked,
                   dbFaults>>
    /\ UNCHANGED WorkerFrame

\* ConvertOne with a failure branch that deletes the rows of the pair that are
\* still flagged as processing.
ConvertOne_DropPlaceholder(id) ==
    /\ exec[id].pc = "convert"
    /\ LET v == JobData(id).video_id
           qs == JobData(id).qualities
           k == exec[id].idx
           q == qs[k]
           path == OutFile(id, deliveries[id], k)
           next(results) ==
               IF k = Len(qs)
               THEN [exec EXCEPT ![id].pc = "complete", ![id].idx = k + 1,
                                 ![id].results = results,
                                 ![id].result = ConversionResult(v, results)]
               ELSE [exec EXCEPT ![id].idx = k + 1, ![id].results = results]
       IN
       \E success \in BOOLEAN, wrote \in BOOLEAN, ok \in DbOutcomes :
          /\ success => wrote
          /\ ~success => ok
          /\ files' = IF wrote THEN files \cup {path} ELSE files
          /\ IF success /\ ok
             THEN /\ variants' = Append(variants, ConvertedRow(v, q, path))
                  /\ exec' = next(Append(exec[id].results,
                                         [quality |-> q, success |-> TRUE,
                                          variant_id |-> Len(variants) + 1,
                                          filename |-> path]))
                  /\ UNCHANGED dbFaults
             ELSE /\ exec' = next(Append(exec[id].results,
                                         [quality |-> q, success |-> FALSE,
                                          error |-> IF success THEN "database error"
                                                    ELSE "Conversion failed"]))
                  /\ dbFaults' = IF success THEN dbFaults + 1 ELSE dbFaults
                  /\ variants' = SelectSeq(variants,
                                           LAMBDA row : ~(/\ row.original_video_id = v
                                                          /\ row.quality = q
                                                          /\ row.is_processing))
    /\ UNCHANGED <<jobs, videos, trimmed, overlays, watermarks, baked>>
    /\ UNCHANGED WorkerFrame

\* ConvertOne with no try block inside the loop: a failed conversion raises
\* out of it.
ConvertOne_RaiseOnFailure(id) ==
    /\ exec[id].pc = "convert"
    /\ LET v == JobData(id).video_id
           qs == JobData(id).qualities
           k == exec[id].idx
           q == qs[k]
           path == OutFile(id, deliveries[id], k)
           next(results) ==
               IF k = Len(qs)
               THEN [exec EXCEPT ![id].pc = "complete", ![id].idx = k + 1,
                                 ![id].results = results,
                                 ![id].result = ConversionResult(v, results)]
               ELSE [exec EXCEPT ![id].idx = k + 1, ![id].results = results]
       IN
       \E success \in BOOLEAN, wrote \in BOOLEAN, ok \in DbOutcomes :
          /\ success => wrote
          /\ ~success => ok
          /\ files' = IF wrote THEN files \cup {path} ELSE files
          /\ IF success /\ ok
             THEN /\ variants' = Append(variants, ConvertedRow(v, q, path))
                  /\ exec' = next(Append(exec[id].results,
                                         [quality |-> q, success |-> TRUE,
                                          variant_id |-> Len(variants) + 1,
                                          filename |-> path]))
                  /\ UNCHANGED dbFaults
             ELSE /\ exec' = Raised(id, IF success THEN "database error"
                                         ELSE "Conversion failed")
                  /\ dbFaults' = IF success THEN dbFaults + 1 ELSE dbFaults
                  /\ UNCHANGED variants
    /\ UNCHANGED <<jobs, videos, trimmed, overlays, watermarks, baked>>
    /\ UNCHANGED WorkerFrame

\* ConvertOne that puts each new entry at the front of results.
ConvertOne_Prepend(id) ==
    /\ exec[id].pc = "convert"
    /\ LET v == JobData(id).video_id
           qs == JobData(id).qualities
           k == exec[id].idx
           q == qs[k]
           path == OutFile(id, deliveries[id], k)
           next(results) ==
               IF k = Len(qs)
               THEN [exec EXCEPT ![id].pc = "complete", ![id].idx = k + 1,
                                 ![id].results = results,
                                 ![id].result = ConversionResult(v, results)]
               ELSE [exec EXCEPT ![id].idx = k + 1, ![id].results = results]
       IN
       \E success \in BOOLEAN, wrote \in BOOLEAN, ok \in DbOutcomes :
          /\ success => wrote
          /\ ~success => ok
          /\ files' = IF wrote THEN files \cup {path} ELSE files
          /\ IF success /\ ok
             THEN /\ variants' = Append(variants, ConvertedRow(v, q, path))
                  /\ exec' = next(<<[quality |-> q, success |-> TRUE,
                                         variant_id |-> Len(variants) + 1,
                                         filename |-> path]>> \o exec[id].results)
                  /\ UNCHANGED dbFaults
             ELSE /\ exec' = next(<<[quality |-> q, success |-> FALSE,
                                         error |-> IF success THEN "database error"
                                                   ELSE "Conversion failed"]>> \o exec[id].results)
                  /\ dbFaults' = IF success THEN dbFaults + 1 ELSE dbFaults
                  /\ UNCHANGED variants
    /\ UNCHANGED <<jobs, videos, trimmed, overlays, watermarks, baked>>
    /\ UNCHANGED WorkerFrame

\* One pass of the loop of convert_video_qualities: the conversion, then on
\* success a new VideoVariant row; whatever is raised is recorded in results
\* and the loop goes on. After the last pass result_data is built.
ConvertOne(id) ==
    /\ exec[id].pc = "convert"
    /\ LET v == JobData(id).video_id
           qs == JobData(id).qualities
           k == exec[id].idx
           q == qs[k]
           path == OutFile(id, deliveries[id], k)
           next(results) ==
               IF k = Len(qs)
               THEN [exec EXCEPT ![id].pc = "complete", ![id].idx = k + 1,
                                 ![id].results = results,
                                 ![id].result = ConversionResult(v, results)]
               ELSE [exec EXCEPT ![id].idx = k + 1, ![id].results = results]
       IN
       \E success \in BOOLEAN, wrote \in BOOLEAN, ok \in DbOutcomes :
          /\ success => wrote
          /\ ~success => ok
          /\ files' = IF wrote THEN files \cup {path} ELSE files
          /\ IF success /\ ok
             THEN /\ variants' = Append(variants, ConvertedRow(v, q, path))
                  /\ exec' = next(Append(exec[id].results,
                                         [quality |-> q, success |-> TRUE,
                                          variant_id |-> Len(variants) + 1,
                                          filename |-> path]))
                  /\ UNCHANGED dbFaults
             ELSE /\ exec' = next(Append(exec[id].results,
                                         [quality |-> q, success |-> FALSE,
                                          error |-> IF success THEN "database error"
                                                    ELSE "Conversion failed"]))
                  /\ dbFaults' = IF success THEN dbFaults + 1 ELSE dbFaults
                  /\ UNCHANGED variants
    /\ UNCHANGED <<jobs, videos, trimmed, overlays, watermarks, baked>>
    /\ UNCHANGED WorkerFrame

\* update_job_status(db, job_id, "completed", result_data), the last statement
\* of the try block of every task.
Complete(id) ==
    /\ exec[id].pc = "complete"
    /\ \E ok \in DbOutcomes :
          IF ok
          THEN /\ jobs' = update_job_status(jobs, id, "completed", exec[id].result,
                                            NoMessage, Now(id))
               /\ exec' = [exec EXCEPT ![id].pc = "return"]
               /\ UNCHANGED dbFaults
          ELSE /\ exec' = Raised(id, "database error")
               /\ dbFaults' = dbFaults + 1
               /\ UNCHANGED jobs
    /\ UNCHANGED <<videos, trimmed, overlays, watermarks, variants, files, baked>>
    /\ UNCHANGED WorkerFrame

\* Except that hands the job back for another attempt: it writes pending
\* with the error instead of failed.
Except_BackToPending(id) ==
    /\ exec[id].pc = "except"
    /\ \E ok \in DbOutcomes :
          IF ok
          THEN /\ jobs' = update_job_status(jobs, id, "pending", NoData, exec[id].err, Now(id))
               /\ exec' = [exec EXCEPT ![id].pc = "raise"]
               /\ UNCHANGED dbFaults
          ELSE /\ exec' = [exec EXCEPT ![id].pc = "raise_db"]
               /\ dbFaults' = dbFaults + 1
               /\ UNCHANGED jobs
    /\ UNCHANGED <<videos, trimmed, overlays, watermarks, variants, files, baked>>
    /\ UNCHANGED WorkerFrame

\* except Exception as e: update_job_status(db, job_id, "failed",
\* error_message=str(e)); raise.  When the write itself raises, that error
\* leaves the task instead ("raise_db") and no status is written.
Except(id) ==
    /\ exec[id].pc = "except"
    /\ \E ok \in DbOutcomes :
          IF ok
          THEN /\ jobs' = update_job_status(jobs, id, "failed", NoData, exec[id].err, Now(id))
               /\ exec' = [exec EXCEPT ![id].pc = "raise"]
               /\ UNCHANGED dbFaults
          ELSE /\ exec' = [exec EXCEPT ![id].pc = "raise_db"]
               /\ dbFaults' = dbFaults + 1
               /\ UNCHANGED jobs
    /\ UNCHANGED <<videos, trimmed, overlays, watermarks, variants, files, baked>>
    /\ UNCHANGED WorkerFrame

\* The program points of a task function that has returned or raised.
Ended == {"return", "raise", "raise_db"}

\* The task function returned or raised: the worker acknowledges the message
\* (task_acks_late), and the broker forgets the task.
Finish(id) ==
    /\ exec[id].pc \in Ended
    /\ exec' = [exec EXCEPT ![id] = Idle]
    /\ UNCHANGED <<jobs, videos, trimmed, overlays, watermarks, variants, files, baked,
                   queue, req, crashes, dbFaults, deliveries, audit>>

\* The worker dies before the acknowledgement: the locals are lost and the
\* broker delivers the task again.
Crash(id) ==
    /\ exec[id] # Idle
    /\ crashes < MaxCrashes
    /\ crashes' = crashes + 1
    /\ exec' = [exec EXCEPT ![id] = Idle]
    /\ queue' = queue \cup {id}
    /\ UNCHANGED <<jobs, videos, trimmed, overlays, watermarks, variants, files, baked,
                   req, dbFaults, deliveries, audit>>

Next ==
    \/ \E r \in DOMAIN req : ReceiveUpload(r)
    \/ \E r \in DOMAIN req : ReceiveTrim(r)
    \/ \E r \in DOMAIN req : ReceiveJob(r)
    \/ \E r \in DOMAIN req : ReceiveQualities(r)
    \/ \E r \in DOMAIN req : Reserve(r)
    \/ \E r \in DOMAIN req : CreateJob(r)
    \/ \E r \in DOMAIN req : Enqueue(r)
    \/ \E id \in JobIds : Deliver(id)
    \/ \E id \in JobIds : Begin(id)
    \/ \E id \in JobIds : ProcessUpload(id)
    \/ \E id \in JobIds : Transform(id)
    \/ \E id \in JobIds : SaveTrimmed(id)
    \/ \E id \in JobIds : SaveOverlay(id)
    \/ \E id \in JobIds : SavePath(id)
    \/ \E id \in JobIds : SaveWatermark(id)
    \/ \E id \in JobIds : ConvertStart(id)
    \/ \E id \in JobIds : ConvertOne(id)
    \/ \E id \in JobIds : Complete(id)
    \/ \E id \in JobIds : Except(id)
    \/ \E id \in JobIds : Finish(id)
    \/ \E id \in JobIds : Crash(id)

Spec == Init /\ [][Next]_vars

\* One step of the worker pool on the task id: the broker delivers it to a
\* free process, or the process running it executes its next statement.
WorkerStep(id) ==
    \/ Deliver(id)
    \/ Begin(id)
    \/ ProcessUpload(id)
    \/ Transform(id)
    \/ SaveTrimmed(id)
    \/ SaveOverlay(id)
    \/ SavePath(id)
    \/ SaveWatermark(id)
    \/ ConvertStart(id)
    \/ ConvertOne(id)
    \/ Complete(id)
    \/ Except(id)
    \/ Finish(id)

\* The broker keeps delivering and a worker process that holds a task keeps
\* running it (every VideoService call returns); nothing is assumed of the
\* clients, and crashes are bounded by MaxCrashes.
SpecLive == Spec /\ \A id \in JobIds : WF_vars(WorkerStep(id))

\* Two submissions to /qualities/convert and the executions of their tasks.
NextTwo ==
    \/ \E r \in DOMAIN req : ReceiveSameQuality(r)
    \/ \E r \in DOMAIN req : Reserve(r)
    \/ \E r \in DOMAIN req : CreateJob(r)
    \/ \E r \in DOMAIN req : Enqueue(r)
    \/ \E id \in JobIds : Deliver(id)
    \/ \E id \in JobIds : Begin(id)
    \/ \E id \in JobIds : ConvertStart(id)
    \/ \E id \in JobIds : ConvertOne(id)
    \/ \E id \in JobIds : Complete(id)
    \/ \E id \in JobIds : Except(id)
    \/ \E id \in JobIds : Finish(id)
    \/ \E id \in JobIds : Crash(id)

SpecTwoConversions == InitTwo /\ [][NextTwo]_vars

\* One submission to /qualities/convert with a list of two qualities and the
\* executions of its task.
NextBatch ==
    \/ \E r \in DOMAIN req : ReceiveBatch(r)
    \/ \E r \in DOMAIN req : Reserve(r)
    \/ \E r \in DOMAIN req : CreateJob(r)
    \/ \E r \in DOMAIN req : Enqueue(r)
    \/ \E id \in JobIds : Deliver(id)
    \/ \E id \in JobIds : Begin(id)
    \/ \E id \in JobIds : ConvertStart(id)
    \/ \E id \in JobIds : ConvertOne(id)
    \/ \E id \in JobIds : Complete(id)
    \/ \E id \in JobIds : Except(id)
    \/ \E id \in JobIds : Finish(id)
    \/ \E id \in JobIds : Crash(id)

SpecBatch == Init /\ [][NextBatch]_vars

\* One submission to /async/trim and the executions of its task.
NextTrim ==
    \/ \E r \in DOMAIN req : ReceiveAnyTrim(r)
    \/ \E r \in DOMAIN req : CreateJob(r)
    \/ \E r \in DOMAIN req : Enqueue(r)
    \/ \E id \in JobIds : Deliver(id)
    \/ \E id \in JobIds : Begin(id)
    \/ \E id \in JobIds : Transform(id)
    \/ \E id \in JobIds : SaveTrimmed(id)
    \/ \E id \in JobIds : Complete(id)
    \/ \E id \in JobIds : Except(id)
    \/ \E id \in JobIds : Finish(id)
    \/ \E id \in JobIds : Crash(id)

SpecTrim == Init /\ [][NextTrim]_vars

\* Two submissions of an overlay or a watermark for video 1 and the
\* executions of their tasks.
NextOverlays ==
    \/ \E r \in DOMAIN req : ReceiveChained(r)
    \/ \E r \in DOMAIN req : CreateJob(r)
    \/ \E r \in DOMAIN req : Enqueue(r)
    \/ \E id \in JobIds : Deliver(id)
    \/ \E id \in JobIds : Begin(id)
    \/ \E id \in JobIds : Transform(id)
    \/ \E id \in JobIds : SaveOverlay(id)
    \/ \E id \in JobIds : SavePath(id)
    \/ \E id \in JobIds : SaveWatermark(id)
    \/ \E id \in JobIds : Complete(id)
    \/ \E id \in JobIds : Except(id)
    \/ \E id \in JobIds : Finish(id)
    \/ \E id \in JobIds : Crash(id)

SpecTwoOverlays == InitTwo /\ [][NextOverlays]_vars


\* A caller about to call crud.create_processing_job(db, job_type, video_id,
\* input_data) with any of the strings, for video 1.
CallCreate(r) ==
    /\ req[r] = NoRequest
    /\ \E job_type \in JobTypeStrings :
          req' = [req EXCEPT ![r] =
                    [pc |-> "call", job_type |-> job_type, video_id |-> 1,
                     job_data |-> [video_id |-> 1, qualities |-> <<>>], job_id |-> "none",
                     error |-> NoMessage]]
    /\ UNCHANGED <<jobs, videos, trimmed, overlays, watermarks, variants, files, baked,
                   queue, exec, crashes, dbFaults, deliveries, audit>>

\* crud.create_processing_job: ValueError for a string that is no job type,
\* before anything is added to the session; otherwise the row is committed in
\* pending under a uuid4 id, unless the commit raises.
create_processing_job(r) ==
    /\ req[r].pc = "call"
    /\ IF job_type_enum(req[r].job_type) = "ValueError"
       THEN /\ req' = [req EXCEPT ![r].pc = "raised", ![r].error = "ValueError"]
            /\ UNCHANGED <<jobs, audit, dbFaults>>
       ELSE \E id \in Uuid4, ok \in DbOutcomes :
               IF ok /\ jobs[id] = NoJob
               THEN /\ jobs' = [jobs EXCEPT ![id] =
                                  NewJobRow(job_type_enum(req[r].job_type), req[r].video_id,
                                            req[r].job_data, CreationTime)]
                    /\ audit' = [audit EXCEPT ![id].inserted = @ + 1,
                                              ![id].created_status = jobs'[id].status]
                    /\ req' = [req EXCEPT ![r].pc = "created", ![r].job_id = id]
                    /\ UNCHANGED dbFaults
               ELSE /\ req' = [req EXCEPT ![r].pc = "raised", ![r].error = "database error"]
                    /\ dbFaults' = IF ok THEN dbFaults ELSE dbFaults + 1
                    /\ UNCHANGED <<jobs, audit>>
    /\ UNCHANGED <<videos, trimmed, overlays, watermarks, variants, files, baked,
                   queue, exec, crashes, deliveries>>

NextJobTypes ==
    \/ \E r \in DOMAIN req : CallCreate(r)
    \/ \E r \in DOMAIN req : create_processing_job(r)

\* Two calls of create_processing_job.
SpecJobTypes == InitTwo /\ [][NextJobTypes]_vars

\* The stores with one more job, u1, as create_processing_job left it.
InitWrites ==
    /\ jobs = [id \in JobIds |->
                 IF id = "u0"
                 THEN [NewJobRow("upload_process", 1, [video_id |-> 1, qualities |-> <<>>],
                                 CreationTime)
                       EXCEPT !.status = "completed", !.started_at = 1, !.completed_at = 1,
                              !.result_data = [kind |-> "upload", video_id |-> 1,
                                               metadata |-> "metadata"]]
                 ELSE IF id = "u1"
                      THEN NewJobRow("trim", 1, TrimJobData(1, 1, 2), CreationTime)
                      ELSE NoJob]
    /\ videos = [v \in VideoIds |->
                   IF v = 1
                   THEN [NewVideoRow(1) EXCEPT !.has_metadata = TRUE, !.is_processed = TRUE]
                   ELSE NoVideo]
    /\ trimmed = <<>>
    /\ overlays = <<>>
    /\ watermarks = <<>>
    /\ variants = <<>>
    /\ files = {UploadFile(1)}
    /\ baked = {}
    /\ queue = {}
    /\ exec = [id \in JobIds |-> Idle]
    /\ crashes = 0
    /\ dbFaults = 0
    /\ deliveries = [id \in JobIds |-> IF id = "u0" THEN 1 ELSE 0]
    /\ audit = [id \in JobIds |->
                  IF id = "u0"
                  THEN [inserted |-> 1, created_status |-> "pending", enqueued |-> 1,
                        returned |-> TRUE]
                  ELSE IF id = "u1"
                       THEN [NoAudit EXCEPT !.inserted = 1, !.created_status = "pending"]
                       ELSE NoAudit]
    /\ req = [r \in ReqIds |-> NoRequest]

\* A caller about to write the status of job u1 with any of the arguments.
CallWrite(r) ==
    /\ req[r] = NoRequest
    /\ \E status \in StatusStrings, result_data \in ResultArgs,
          error_message \in ErrorArgs, t \in WriteTimes :
          req' = [req EXCEPT ![r] =
                    [pc |-> "write", job_id |-> "u1", status |-> status,
                     result_data |-> result_data, error_message |-> error_message,
                     t |-> t, crud |-> [error |-> NoMessage, job |-> NoJob]]]
    /\ UNCHANGED <<jobs, videos, trimmed, overlays, watermarks, variants, files, baked,
                   queue, exec, crashes, dbFaults, deliveries, audit>>

\* The two update_job_status called with the same arguments on the same
\* row: the store takes the write of celery_tasks.update_job_status, the
\* caller keeps what crud.update_job_status answers.
StatusWrite(r) ==
    /\ req[r].pc = "write"
    /\ jobs' = update_job_status(jobs, req[r].job_id, req[r].status, req[r].result_data,
                                 req[r].error_message, req[r].t)
    /\ req' = [req EXCEPT
                 ![r].pc = "written",
                 ![r].crud = crud_update_job_status(jobs, req[r].job_id, req[r].status,
                                                    req[r].result_data,
                                                    req[r].error_message, req[r].t)]
    /\ UNCHANGED <<videos, trimmed, overlays, watermarks, variants, files, baked,
                   queue, exec, crashes, dbFaults, deliveries, audit>>

\* The caller is done; another call can follow.
ReturnWrite(r) ==
    /\ req[r].pc = "written"
    /\ req' = [req EXCEPT ![r] = NoRequest]
    /\ UNCHANGED <<jobs, videos, trimmed, overlays, watermarks, variants, files, baked,
                   queue, exec, crashes, dbFaults, deliveries, audit>>

NextWrites ==
    \/ \E r \in DOMAIN req : CallWrite(r)
    \/ \E r \in DOMAIN req : StatusWrite(r)
    \/ \E r \in DOMAIN req : ReturnWrite(r)

\* Any sequence of status writes on one job.
SpecWrites == InitWrites /\ [][NextWrites]_vars

\* The loop of convert_video_qualities reduced to its settings lookup: the
\* list it walks and the settings it has looked up so far.
SettingsCall(qs) == [pc |-> "settings", qualities |-> qs, answers |-> <<>>]

InitSettings ==
    /\ Stores0
    /\ \E qs \in [1..2 -> QualityStrings] : req = [r \in ReqIds |-> SettingsCall(qs)]

\* width, height, bitrate = get_quality_settings(quality) for the next
\* quality of the list.
GetSettings(r) ==
    /\ req[r].pc = "settings"
    /\ Len(req[r].answers) < Len(req[r].qualities)
    /\ req' = [req EXCEPT ![r].answers =
                  Append(@, get_quality_settings(req[r].qualities[Len(req[r].answers) + 1]))]
    /\ UNCHANGED <<jobs, videos, trimmed, overlays, watermarks, variants, files, baked,
                   queue, exec, crashes, dbFaults, deliveries, audit>>

NextSettings == \E r \in DOMAIN req : GetSettings(r)

SpecSettings == InitSettings /\ [][NextSettings]_vars


(* ------------------------------- queries ------------------------------ *)
\* str(job.error_message) inside an f-string: None prints as "None".
ErrorText(job) == IF job.error_message = NoMessage THEN "None" ELSE job.error_message

\* get_job_status with 50 percent for a failed job.
get_job_status_FailedAtHalf(job) ==
    CASE job.status = "pending" ->
           [status |-> job.status, progress_percentage |-> 0,
            message |-> "Job is waiting to be processed"]
      [] job.status = "processing" ->
           [status |-> job.status, progress_percentage |-> 50,
            message |-> "Job is currently being processed"]
      [] job.status = "completed" ->
           [status |-> job.status, progress_percentage |-> 100,
            message |-> "Job completed successfully"]
      [] job.status = "failed" ->
           [status |-> job.status, progress_percentage |-> 50,
            message |-> "Job failed: " \o ErrorText(job)]

\* GET /status/{job_id} for a job that is in the store.
get_job_status(job) ==
    CASE job.status = "pending" ->
           [status |-> job.status, progress_percentage |-> 0,
            message |-> "Job is waiting to be processed"]
      [] job.status = "processing" ->
           [status |-> job.status, progress_percentage |-> 50,
            message |-> "Job is currently being processed"]
      [] job.status = "completed" ->
           [status |-> job.status, progress_percentage |-> 100,
            message |-> "Job completed successfully"]
      [] job.status = "failed" ->
           [status |-> job.status, progress_percentage |-> 0,
            message |-> "Job failed: " \o ErrorText(job)]

\* The answers of get_job_result: the status with a message, a file, the
\* result payload.
StatusAnswer(job) ==
    [kind |-> "status", status |-> job.status,
     message |-> IF job.status \in {"pending", "processing"}
                 THEN "Job not completed yet"
                 ELSE "Job failed: " \o ErrorText(job)]
FileAnswer(path) == [kind |-> "file", path |-> path]
ResultAnswer(job) == [kind |-> "result", status |-> job.status, result |-> job.result_data]

\* What get_job_result answers for a completed job: the trimmed file or the
\* output file when it is on disk, the result payload otherwise.
CompletedAnswer(job) ==
    IF job.job_type = "trim" /\ job.result_data.kind = "trim"
    THEN IF /\ job.result_data.trimmed_video_id \in 1..Len(trimmed)
            /\ trimmed[job.result_data.trimmed_video_id].file_path \in files
         THEN FileAnswer(trimmed[job.result_data.trimmed_video_id].file_path)
         ELSE ResultAnswer(job)
    ELSE IF job.result_data.kind \in {"overlay", "watermark"}
         THEN IF job.result_data.output_file \in files
              THEN FileAnswer(job.result_data.output_file)
              ELSE ResultAnswer(job)
         ELSE ResultAnswer(job)

\* get_job_result with no test of the status: whatever the job has stored.
get_job_result_NoStatusTest(job) ==
    IF job.result_data = NoData THEN StatusAnswer(job) ELSE CompletedAnswer(job)

\* GET /result/{job_id} for a job that is in the store.
get_job_result(job) ==
    IF job.status # "completed" THEN StatusAnswer(job) ELSE CompletedAnswer(job)

\* GET /videos/{video_id}/qualities/{quality}: the answers it can give, one
\* for each row the variant query can answer.
download_video_quality(v, q) ==
    IF videos[v] = NoVideo
    THEN {[code |-> 404, detail |-> "Video not found"]}
    ELSE {IF row = NoVariant
          THEN [code |-> 404, detail |-> "Quality not found for this video"]
          ELSE IF row.is_processing
               THEN [code |-> 202, detail |-> "Quality is still being processed"]
               ELSE IF row.file_path \notin files
                    THEN [code |-> 404, detail |-> "Quality file not found"]
                    ELSE [code |-> 200, detail |-> "file", path |-> row.file_path] :
          row \in get_variant_by_quality(variants, v, q)}

(* ------------------------------ properties ---------------------------- *)
Stored == {id \in JobIds : jobs[id] # NoJob}

\* The tasks whose job failure the executor reports from a False transform.
\* (process_video_upload reads the metadata of get_video_info instead.)
TransformTasks ==
    {"process_video_upload", "trim_video_async", "add_overlay_async",
     "add_watermark_async"}

\* C1: completed and failed are terminal: no step changes the status of a job
\* whose status is completed or failed (so no job goes back to processing).
C1_TerminalIsFinal ==
    [][\A id \in Stored :
          jobs[id].status \in Terminal => jobs'[id].status = jobs[id].status]_vars

\* C2: every job id returned by a submission has exactly one row, inserted
\* once and created in pending, and at most one task was enqueued with it.
C2_OneJobOneTask ==
    \A id \in JobIds :
        audit[id].returned =>
            /\ jobs[id] # NoJob
            /\ audit[id].inserted = 1
            /\ audit[id].created_status = "pending"
            /\ audit[id].enqueued <= 1

\* A submission of the model was answered with its job id.
C2_Witness ==
    \E r \in ReqIds : req[r].pc = "done" /\ audit[req[r].job_id].returned

\* C3: every task that is queued, running or was ever enqueued has a job row
\* with its id, and no id has more tasks enqueued than rows persisted (a
\* failed insert enqueues nothing).
C3_NoOrphanTask ==
    \A id \in JobIds :
        /\ (id \in queue \/ exec[id] # Idle \/ audit[id].enqueued > 0) => jobs[id] # NoJob
        /\ audit[id].enqueued <= audit[id].inserted

\* The task of a submitted job is running and its row is in the store.
C3_Witness ==
    \E id \in JobIds : exec[id] # Idle /\ exec[id].pc = "body" /\ jobs[id] # NoJob

\* C4: started_at is written only by a step that enters processing, with the
\* time of that step; every job in processing has it; and once written it
\* never changes, whatever runs later.
C4_StartedAtOnce ==
    [][\A id \in Stored :
          /\ jobs[id].started_at # NoTime => jobs'[id].started_at = jobs[id].started_at
          /\ (jobs[id].started_at = NoTime /\ jobs'[id].started_at # NoTime)
                => (jobs'[id].status = "processing" /\ jobs'[id].started_at = deliveries[id])
          /\ jobs'[id].status = "processing" => jobs'[id].started_at # NoTime]_vars

\* The task was delivered a second time and wrote processing again: the
\* start time is still that of the first delivery.
C4_Witness ==
    \E id \in Stored :
        /\ deliveries[id] = 2
        /\ exec[id] # Idle
        /\ exec[id].pc = "body"
        /\ jobs[id].started_at = 1

\* C5: a written completed_at never changes.
C5_CompletedAtOnce ==
    [][\A id \in Stored :
          jobs[id].completed_at # NoTime
              => jobs'[id].completed_at = jobs[id].completed_at]_vars

\* C6: result_data is written only by the write of completed, and a written
\* result_data never changes.
C6_ResultDataOnce ==
    [][\A id \in Stored :
          /\ jobs[id].result_data # NoData => jobs'[id].result_data = jobs[id].result_data
          /\ jobs'[id].result_data # jobs[id].result_data
                => jobs'[id].status = "completed"]_vars

\* C7: error_message is written only by the write of failed, and a written
\* error_message never changes.
C7_ErrorMessageOnce ==
    [][\A id \in Stored :
          /\ jobs[id].error_message # NoMessage
                => jobs'[id].error_message = jobs[id].error_message
          /\ jobs'[id].error_message # jobs[id].error_message
                => jobs'[id].status = "failed"]_vars

\* C8: a job whose status is completed has no error_message.
C8_CompletedHasNoError ==
    \A id \in Stored :
        jobs[id].status = "completed" => jobs[id].error_message = NoMessage

\* C9: a running task past its first statement has left pending behind, and
\* when the task function has returned or raised (whatever was raised, and
\* wherever) the job is completed or failed.
C9_Bracketing ==
    \A id \in Stored :
        exec[id] # Idle =>
            /\ exec[id].pc \in Ended => jobs[id].status \in Terminal
            /\ exec[id].pc \notin {"begin", "except"} \cup Ended => jobs[id].status = "processing"

\* C10: in an upload, trim, overlay or watermark task whose transform failed
\* the job is never completed, the task does not return normally, and once
\* the except clause has written its status the job is failed with an
\* error_message.
C10_TransformFailureFails ==
    \A id \in Stored :
        (exec[id] # Idle /\ Task(id) \in TransformTasks /\ exec[id].success = "fail")
            => /\ jobs[id].status # "completed"
               /\ exec[id].pc # "return"
               /\ exec[id].pc = "raise"
                     => (jobs[id].status = "failed" /\ jobs[id].error_message # NoMessage)

(* --------------------------- variant properties ----------------------- *)
\* The conversion jobs in the store, and the qualities a job asked for.
ConversionJobs == {id \in Stored : jobs[id].job_type = "quality_conversion"}
Requested(id) == {JobData(id).qualities[k] : k \in 1..Len(JobData(id).qualities)}

C12_ReservedBeforeDispatch ==
    [][\A id \in JobIds :
          (/\ jobs'[id] # NoJob
           /\ jobs'[id].job_type = "quality_conversion"
           /\ audit'[id].enqueued > 0)
          => \A k \in 1..Len(jobs'[id].input_data.qualities) :
                LET v == jobs'[id].input_data.video_id
                    q == jobs'[id].input_data.qualities[k]
                IN /\ NoVariant \notin get_variant_by_quality(variants', v, q)
                   /\ audit[id].enqueued = 0
                         => \E row \in get_variant_by_quality(variants', v, q) :
                               row.is_processing]_vars

\* The task of a conversion job that asked for a quality is in the broker's
\* queue and the placeholder of that quality is in the store.
C12_Witness ==
    \E id \in ConversionJobs :
        /\ id \in queue
        /\ deliveries[id] = 0
        /\ Requested(id) # {}
        /\ \A q \in Requested(id) :
              \E row \in get_variant_by_quality(variants, JobData(id).video_id, q) :
                  row # NoVariant /\ row.is_processing

\* C13: when one request lists a quality twice and the video has no variant
\* of that quality, the reservation leaves exactly one row of that pair.
C13_ReserveOncePerRequest ==
    [][\A r \in DOMAIN req :
          (req[r].pc = "reserve" /\ req'[r].pc = "create")
          => \A q \in {req[r].job_data.qualities[k] :
                           k \in 1..Len(req[r].job_data.qualities)} :
                VariantRows(variants, req[r].video_id, q) = {}
                   => Cardinality(VariantRows(variants', req[r].video_id, q)) = 1]_vars

\* A conversion job is over: its task is neither queued nor running, its
\* status is terminal.
Over(id) ==
    /\ jobs[id] # NoJob
    /\ jobs[id].status \in Terminal
    /\ id \notin queue
    /\ exec[id] = Idle

\* Every conversion the stored result of the job reports has succeeded.
AllSucceeded(id) ==
    /\ jobs[id].status = "completed"
    /\ jobs[id].result_data # NoData
    /\ \A k \in 1..Len(jobs[id].result_data.conversions) :
          jobs[id].result_data.conversions[k].success

RowsOfVideo(v) == {i \in 1..Len(variants) : variants[i].original_video_id = v}

RECURSIVE SuccessCount(_)
SuccessCount(results) ==
    IF results = <<>> THEN 0
    ELSE (IF Head(results).success THEN 1 ELSE 0) + SuccessCount(Tail(results))

\* C16: in the result of every completed conversion job, total_successful is
\* the number of entries of conversions whose success flag is set.
C16_TotalSuccessful ==
    \A id \in ConversionJobs :
        jobs[id].status = "completed"
        => jobs[id].result_data.total_successful
              = SuccessCount(jobs[id].result_data.conversions)

\* A completed conversion job reports one success and one failure.
C16_Witness ==
    \E id \in ConversionJobs :
        /\ jobs[id].status = "completed"
        /\ \E k, l \in 1..Len(jobs[id].result_data.conversions) :
              /\ jobs[id].result_data.conversions[k].success
              /\ ~jobs[id].result_data.conversions[l].success
        /\ jobs[id].result_data.total_successful = 1

FailedPass(id) ==
    /\ exec[id] # Idle
    /\ exec[id].pc = "convert"
    /\ exec'[id] # Idle
    /\ Len(exec'[id].results) = Len(exec[id].results) + 1
    /\ ~exec'[id].results[Len(exec'[id].results)].success

\* C18: a failed conversion leaves the variant store as it was, no step ever
\* deletes a row or changes a row that is flagged as processing, and a job
\* that is over still has a processing row for each quality it reports failed.
C18_FailureKeepsPlaceholder ==
    [][/\ \A id \in JobIds : FailedPass(id) => variants' = variants
       /\ Len(variants') >= Len(variants)
       /\ \A i \in 1..Len(variants) : variants[i].is_processing => variants'[i] = variants[i]
       /\ \A id \in JobIds :
             (/\ jobs'[id] # NoJob
              /\ jobs'[id].job_type = "quality_conversion"
              /\ jobs'[id].status \in Terminal
              /\ jobs'[id].result_data # NoData)
             => \A k \in 1..Len(jobs'[id].result_data.conversions) :
                   ~jobs'[id].result_data.conversions[k].success
                   => \E row \in get_variant_by_quality(
                                     variants', jobs'[id].input_data.video_id,
                                     jobs'[id].result_data.conversions[k].quality) :
                         /\ row # NoVariant
                         /\ row.is_processing
                         /\ row.file_path
                               = PlaceholderFile(row.quality, row.original_video_id)]_vars

\* A conversion job is over, one of its conversions failed, and the
\* placeholder of that quality is in the store, still processing.
C18_Witness ==
    \E id \in ConversionJobs :
        /\ Over(id)
        /\ jobs[id].result_data # NoData
        /\ \E k \in 1..Len(jobs[id].result_data.conversions) :
              /\ ~jobs[id].result_data.conversions[k].success
              /\ \E i \in VariantRows(variants, JobData(id).video_id,
                                        jobs[id].result_data.conversions[k].quality) :
                    /\ variants[i].is_processing
                    /\ variants[i].file_path
                          = PlaceholderFile(variants[i].quality, JobData(id).video_id)

\* The errors of one conversion, which stay in its entry of results.
ConversionErrors == {"Conversion failed"}

\* C19: a pass of the conversion loop always goes on to the next quality or,
\* after the last, to the write of completed, whatever the conversion did; the
\* result is built only when every requested quality was attempted; and no
\* conversion job is failed with the error of a conversion.
C19_PartialFailureIsolated ==
    [][\A id \in JobIds :
          /\ (exec[id] # Idle /\ exec[id].pc = "convert" /\ exec'[id] # Idle)
                => /\ exec'[id].pc \in {"convert", "complete"}
                   /\ exec'[id].idx = exec[id].idx + 1
                   /\ Len(exec'[id].results) = exec[id].idx
                   /\ exec'[id].pc = "complete"
                         <=> exec[id].idx = Len(jobs[id].input_data.qualities)
          /\ (/\ jobs'[id] # NoJob
              /\ jobs'[id].job_type = "quality_conversion")
                => /\ jobs'[id].error_message \notin ConversionErrors
                   /\ (jobs'[id].status = "completed"
                         => Len(jobs'[id].result_data.conversions)
                               = Len(jobs'[id].input_data.qualities))]_vars

\* A conversion job whose two conversions both failed is completed.
C19_Witness ==
    \E id \in ConversionJobs :
        /\ jobs[id].status = "completed"
        /\ Len(jobs[id].result_data.conversions) = 2
        /\ \A k \in 1..2 : ~jobs[id].result_data.conversions[k].success
        /\ jobs[id].result_data.total_successful = 0

\* C20: a submission to the trim, overlay, watermark or conversion endpoint
\* that names a video id without a row is answered 404 in the step that
\* receives it: that step creates no job, creates or flags no variant and
\* enqueues nothing, and the request goes no further.
C20_MissingVideoRejected ==
    [][\A r \in DOMAIN req :
          /\ (/\ req[r] = NoRequest
              /\ req'[r] # NoRequest
              /\ req'[r].endpoint # "upload"
              /\ videos[req'[r].video_id] = NoVideo)
                => /\ req'[r].pc = "refused"
                   /\ req'[r].code \in {404, 422}
                   /\ jobs' = jobs
                   /\ variants' = variants
                   /\ queue' = queue
                   /\ audit' = audit
          /\ (req[r] # NoRequest /\ req[r].pc = "refused") => req'[r] = req[r]]_vars

\* A submission that named a video without a row was answered 404.
C20_Witness ==
    \E r \in DOMAIN req :
        /\ req[r] # NoRequest
        /\ req[r].pc = "refused"
        /\ req[r].code = 404
        /\ req[r].endpoint \in {"trim", "text", "image", "watermark", "quality"}
        /\ videos[req[r].video_id] = NoVideo

(* ------------------------- submission properties ---------------------- *)
\* The timestamps the trim endpoint must refuse for a video of the given
\* duration (0: not known).
BadTimestamps(start_time, end_time, duration) ==
    \/ start_time < 0
    \/ end_time <= start_time
    \/ (duration # 0 /\ end_time > duration)

\* C21: a trim submission with start < 0, end <= start or end beyond the
\* known duration of the video is answered 400 in the step that receives it:
\* that step leaves the job store and the queue as they were and the request
\* goes no further, so every trim job in the store has valid timestamps.
C21_BadTimestampsRejected ==
    [][/\ \A r \in DOMAIN req :
             /\ (/\ req[r] = NoRequest
                 /\ req'[r] # NoRequest
                 /\ req'[r].endpoint = "trim"
                 /\ videos[req'[r].video_id] # NoVideo
                 /\ BadTimestamps(req'[r].job_data.start_time, req'[r].job_data.end_time,
                                  Duration(videos[req'[r].video_id])))
                   => /\ req'[r].pc = "refused"
                      /\ req'[r].code = 400
                      /\ jobs' = jobs
                      /\ queue' = queue
                      /\ audit' = audit
             /\ (req[r] # NoRequest /\ req[r].pc = "refused") => req'[r] = req[r]
       /\ \A id \in JobIds :
             (jobs'[id] # NoJob /\ jobs'[id].job_type = "trim")
             => ~BadTimestamps(jobs'[id].input_data.start_time, jobs'[id].input_data.end_time,
                               Duration(videos'[jobs'[id].video_id]))]_vars

\* Scenario B: a trim whose end is not after its start was answered 400.
C21_Witness ==
    \E r \in DOMAIN req :
        /\ req[r] # NoRequest
        /\ req[r].pc = "refused"
        /\ req[r].endpoint = "trim"
        /\ req[r].code = 400
        /\ req[r].job_data.start_time >= 0
        /\ req[r].job_data.end_time <= req[r].job_data.start_time
        /\ \A id \in Stored : jobs[id].job_type # "trim"

\* C22: a conversion submission whose list holds a string that is no quality
\* is answered 422 in the step that receives it: that step creates or flags
\* no variant, creates no job and enqueues nothing, the request goes no
\* further, and no job or variant in the store carries such a string.
C22_UnknownQualityRejected ==
    [][/\ \A r \in DOMAIN req :
             /\ (/\ req[r] = NoRequest
                 /\ req'[r] # NoRequest
                 /\ req'[r].endpoint = "quality"
                 /\ "job_data" \in DOMAIN req'[r]
                 /\ \E k \in 1..Len(req'[r].job_data.qualities) :
                       req'[r].job_data.qualities[k]
                          \notin {"1080p", "720p", "480p", "360p"})
                   => /\ req'[r].pc = "refused"
                      /\ req'[r].code = 422
                      /\ variants' = variants
                      /\ jobs' = jobs
                      /\ queue' = queue
                      /\ audit' = audit
             /\ (req[r] # NoRequest /\ req[r].pc = "refused") => req'[r] = req[r]
       /\ \A id \in JobIds :
             (jobs'[id] # NoJob /\ jobs'[id].job_type = "quality_conversion")
             => \A k \in 1..Len(jobs'[id].input_data.qualities) :
                   jobs'[id].input_data.qualities[k] \in {"1080p", "720p", "480p", "360p"}
       /\ \A i \in 1..Len(variants') :
             variants'[i].quality \in {"1080p", "720p", "480p", "360p"}]_vars

\* Scenario C: a request for 720p and 9999p was answered 422 and the variant
\* store is empty.
C22_Witness ==
    \E r \in DOMAIN req :
        /\ req[r] # NoRequest
        /\ req[r].pc = "refused"
        /\ req[r].code = 422
        /\ req[r].job_data.qualities = <<"720p", "9999p">>
        /\ videos[req[r].video_id] # NoVideo
        /\ variants = <<>>

\* The jobs whose row was persisted and whose enqueue failed: no task was
\* ever sent with the id and no endpoint is about to send one.
Leaked ==
    {id \in Stored :
        /\ audit[id].inserted = 1
        /\ audit[id].enqueued = 0
        /\ \A r \in DOMAIN req :
              ~(req[r] # NoRequest /\ req[r].pc = "enqueue" /\ req[r].job_id = id)}

\* C23: a job whose enqueue failed after its row was persisted stays as it
\* was created, in pending, from the step that failed onwards: no step
\* deletes or changes its row, sends its task or runs it.
C23_FailedEnqueueLeavesPending ==
    [][/\ \A id \in Leaked' :
             /\ jobs'[id].status = "pending"
             /\ id \notin queue'
             /\ exec'[id] = Idle
       /\ \A id \in Leaked :
             /\ jobs'[id] = jobs[id]
             /\ audit'[id].enqueued = 0]_vars

\* apply_async failed for a job whose row is in the store, and the endpoint
\* has answered 500.
C23_Witness ==
    \E id \in Leaked :
        /\ jobs[id].status = "pending"
        /\ \E r \in DOMAIN req :
              req[r] # NoRequest /\ req[r].pc = "refused" /\ req[r].code = 500

\* C29: the result of every completed trim job names a trimmed_videos row
\* that exists, with the start and end time of the job, whose duration is the
\* end time minus the start time; the result carries the same duration.
C29_TrimDuration ==
    \A id \in Stored :
        (jobs[id].job_type = "trim" /\ jobs[id].status = "completed")
        => /\ jobs[id].result_data # NoData
           /\ jobs[id].result_data.trimmed_video_id \in 1..Len(trimmed)
           /\ LET row == trimmed[jobs[id].result_data.trimmed_video_id]
              IN /\ row.start_time = jobs[id].input_data.start_time
                 /\ row.end_time = jobs[id].input_data.end_time
                 /\ row.duration = jobs[id].input_data.end_time
                                      - jobs[id].input_data.start_time
                 /\ jobs[id].result_data.duration = row.duration

\* A trim from second 1 to second 2 is completed with duration 1.
C29_Witness ==
    \E id \in Stored :
        /\ jobs[id].job_type = "trim"
        /\ jobs[id].status = "completed"
        /\ jobs[id].input_data.start_time = 1
        /\ jobs[id].input_data.end_time = 2
        /\ jobs[id].result_data.duration = 1

(* --------------------------- query properties ------------------------- *)
\* The progress each status is reported with.
ProgressOf == [pending |-> 0, processing |-> 50, completed |-> 100, failed |-> 0]

C25_ResultOnlyWhenCompleted ==
    \A id \in Stored :
        LET answer == get_job_result(jobs[id])
        IN /\ jobs[id].status # "completed"
                 => /\ answer.kind = "status"
                    /\ answer.status = jobs[id].status
                    /\ answer.message # ""
           /\ answer.kind \in {"file", "result"} => jobs[id].status = "completed"

\* A job that has a result stored and is processing again is answered with
\* its status.
C25_Witness ==
    \E id \in Stored :
        /\ jobs[id].status = "processing"
        /\ jobs[id].result_data # NoData
        /\ get_job_result(jobs[id]).kind = "status"

ChainedTypes == {"text_overlay", "image_overlay", "video_overlay", "watermark"}

\* The file f and every file it was rendered from, directly or through
\* other outputs.
RECURSIVE Chain(_)
Chain(f) == {f} \cup UNION {Chain(pair[2]) : pair \in {p \in baked : p[1] = f}}

\* The overlay or watermark row the stored result of a job names is in the
\* store.
RecordExists(job) ==
    IF job.result_data.kind = "overlay"
    THEN job.result_data.overlay_id \in 1..Len(overlays)
    ELSE /\ job.result_data.kind = "watermark"
         /\ job.result_data.watermark_id \in 1..Len(watermarks)

\* C27: in the state an overlay or watermark job reaches completed, the
\* record named by its result exists and the current file of the video is the
\* output of the job, or was rendered from it, so that the next job on the
\* video works on a file that holds this job's overlay.
C27_CompletedOverlayIsCurrent ==
    [][\A id \in JobIds :
          (/\ jobs[id] # NoJob
           /\ jobs[id].job_type \in ChainedTypes
           /\ jobs[id].status # "completed"
           /\ jobs'[id].status = "completed")
          => /\ RecordExists(jobs[id])'
             /\ (jobs[id].result_data.output_file
                   \in Chain(videos[jobs[id].video_id].file_path))']_vars

\* C28: when two overlay or watermark jobs on one video are both over and
\* completed, the current file of the video holds both overlays: the output
\* of each is that file or a file it was rendered from.
C28_ChainingComposes ==
    \A a, b \in Stored :
        (/\ a # b
         /\ jobs[a].job_type \in ChainedTypes
         /\ jobs[b].job_type \in ChainedTypes
         /\ jobs[a].video_id = jobs[b].video_id
         /\ Over(a) /\ jobs[a].status = "completed"
         /\ Over(b) /\ jobs[b].status = "completed")
        => {jobs[a].result_data.output_file, jobs[b].result_data.output_file}
              \subseteq Chain(videos[jobs[a].video_id].file_path)

\* The files on disk that executions of the task of a job wrote.
OutputsOf(id) == {f \in files : f[1] = "processed" /\ f[2] = id}

\* C30: a job that is failed has no output file of its own left on disk.
C30_FailedJobLeavesNoOutput ==
    \A id \in Stored : jobs[id].status = "failed" => OutputsOf(id) = {}

(* --------------------------- job store properties --------------------- *)
\* C31: no step removes a job row, and no step changes the job_type, the
\* video_id or the input_data of a row that is in the store (the id is the
\* key the row is stored under).
C31_JobStoreAppendOnly ==
    [][\A id \in Stored :
          /\ jobs'[id] # NoJob
          /\ jobs'[id].job_type = jobs[id].job_type
          /\ jobs'[id].video_id = jobs[id].video_id
          /\ jobs'[id].input_data = jobs[id].input_data]_vars

\* A submitted job was executed twice (its task was redelivered) and is
\* terminal, with the parameters it was created with.
C31_Witness ==
    \E id \in Stored :
        /\ id # "u0"
        /\ deliveries[id] = 2
        /\ jobs[id].status \in Terminal
        /\ jobs[id].input_data # NoData
        /\ jobs[id].input_data.video_id = jobs[id].video_id

\* C32: the settings looked up for 1080p are (1920, 1080, 5000k), for 720p
\* (1280, 720, 3000k), for 480p (854, 480, 1500k), for 360p (640, 360, 800k),
\* and for every other string (1280, 720, 3000k).
C32_QualitySettings ==
    \A r \in DOMAIN req :
        \A k \in 1..Len(req[r].answers) :
            LET quality == req[r].qualities[k]
                answer == req[r].answers[k]
            IN /\ quality = "1080p" => answer = <<1920, 1080, "5000k">>
               /\ quality = "720p" => answer = <<1280, 720, "3000k">>
               /\ quality = "480p" => answer = <<854, 480, "1500k">>
               /\ quality = "360p" => answer = <<640, 360, "800k">>
               /\ quality \notin {"1080p", "720p", "480p", "360p"}
                     => answer = <<1280, 720, "3000k">>

\* The settings of 360p and of a string that is no quality were looked up.
C32_Witness ==
    \E r \in DOMAIN req :
        /\ req[r].qualities = <<"360p", "9999p">>
        /\ req[r].answers = <<<<640, 360, "800k">>, <<1280, 720, "3000k">>>>

\* C33: every job whose task was enqueued is eventually completed or failed.
C33_EnqueuedJobTerminates ==
    \A id \in JobIds :
        (audit[id].enqueued > 0) ~> (jobs[id] # NoJob /\ jobs[id].status \in Terminal)

(* ------------------------- redelivery properties ---------------------- *)
\* The jobs in the store whose type is one of the given types.
JobsOfType(types) == {id \in Stored : jobs[id].job_type \in types}

\* The outputs of the task of a job among the file f and the files it was
\* rendered from: one for each time the overlay of the job is in f.
Applications(id, f) == {g \in Chain(f) : g[1] = "processed" /\ g[2] = id}

\* C34: however often the tasks are delivered, there are no more
\* trimmed_videos rows than trim jobs, no more video_overlays rows than
\* overlay jobs, no more video_watermarks rows than watermark jobs, and the
\* current file of a video holds the overlay of a job at most once.
C34_IdempotentUnderRedelivery ==
    /\ Len(trimmed) <= Cardinality(JobsOfType({"trim"}))
    /\ Len(overlays)
          <= Cardinality(JobsOfType({"text_overlay", "image_overlay", "video_overlay"}))
    /\ Len(watermarks) <= Cardinality(JobsOfType({"watermark"}))
    /\ \A id \in JobsOfType(ChainedTypes) :
          videos[jobs[id].video_id] # NoVideo
          => Cardinality(Applications(id, videos[jobs[id].video_id].file_path)) <= 1

\* C35: in the step that marks an overlay or watermark job failed, the
\* current file of the video is the one the execution read as its input, and
\* the execution has created no video_overlays or video_watermarks row.
C35_FailedJobLeavesVideo ==
    [][\A id \in Stored :
          (/\ jobs[id].job_type \in ChainedTypes
           /\ jobs[id].status # "failed"
           /\ jobs'[id].status = "failed")
          => /\ exec[id].rec = 0
             /\ exec[id].input # <<>>
                   => videos'[jobs[id].video_id].file_path = exec[id].input]_vars

\* C36: no step writes pending to a job whose status is not pending.
C36_NoRollbackToPending ==
    [][\A id \in Stored :
          jobs[id].status # "pending" => jobs'[id].status # "pending"]_vars

\* The except clause of a submitted job has written failed, and the job is
\* not pending.
C36_Witness ==
    \E id \in Stored :
        /\ id # "u0"
        /\ exec[id] # Idle
        /\ exec[id].pc = "raise"
        /\ jobs[id].status = "failed"

\* C37: a pending job has no started_at, completed_at, result_data or
\* error_message; a job with a completed_at is completed or failed; and no job
\* has both a result_data and an error_message.
C37_JobRecordConsistent ==
    \A id \in Stored :
        /\ jobs[id].status = "pending"
              => /\ jobs[id].started_at = NoTime
                 /\ jobs[id].completed_at = NoTime
                 /\ jobs[id].result_data = NoData
                 /\ jobs[id].error_message = NoMessage
        /\ jobs[id].completed_at # NoTime => jobs[id].status \in Terminal
        /\ ~(jobs[id].result_data # NoData /\ jobs[id].error_message # NoMessage)

\* C38: the conversions list of a completed conversion job has one entry per
\* element of the requested list, in the order of the request: entry k
\* carries the quality of element k and a success flag.
C38_ConversionsFollowRequest ==
    \A id \in ConversionJobs :
        jobs[id].status = "completed"
        => /\ jobs[id].result_data # NoData
           /\ Len(jobs[id].result_data.conversions) = Len(jobs[id].input_data.qualities)
           /\ \A k \in 1..Len(jobs[id].input_data.qualities) :
                 /\ jobs[id].result_data.conversions[k].quality
                       = jobs[id].input_data.qualities[k]
                 /\ jobs[id].result_data.conversions[k].success \in BOOLEAN

\* A job that asked for 720p and 480p is completed: 720p failed, 480p
\* succeeded, and the entries are in that order.
C38_Witness ==
    \E id \in ConversionJobs :
        /\ jobs[id].status = "completed"
        /\ jobs[id].input_data.qualities = <<"720p", "480p">>
        /\ jobs[id].result_data.conversions[1].quality = "720p"
        /\ ~jobs[id].result_data.conversions[1].success
        /\ jobs[id].result_data.conversions[2].quality = "480p"
        /\ jobs[id].result_data.conversions[2].success

\* The snake_case value of each camelCase name.
Aliases ==
    [uploadProcess |-> "upload_process", textOverlay |-> "text_overlay",
     imageOverlay |-> "image_overlay", videoOverlay |-> "video_overlay",
     qualityConversion |-> "quality_conversion"]

\* C39: every job_type in the store is one of the seven values; a call of
\* create_processing_job that returns has stored the string it was given when
\* that is one of the seven, or the snake_case value of the camelCase name it
\* was given; a call with any other string raises ValueError; and a call
\* that raises leaves the job store as it was.
C39_JobTypeNormalised ==
    [][/\ \A id \in JobIds : jobs'[id] # NoJob => jobs'[id].job_type \in JobTypeValues
       /\ \A r \in DOMAIN req :
             (req[r] # NoRequest /\ req[r].pc = "call" /\ req'[r].pc # "call")
             => /\ req'[r].pc = "created"
                      => /\ jobs[req'[r].job_id] = NoJob
                         /\ jobs'[req'[r].job_id].job_type
                               = IF req[r].job_type \in DOMAIN Aliases
                                 THEN Aliases[req[r].job_type]
                                 ELSE req[r].job_type
                /\ req[r].job_type \notin JobTypeValues \cup DOMAIN Aliases
                      => (req'[r].pc = "raised" /\ req'[r].error = "ValueError")
                /\ req'[r].pc = "raised" => jobs' = jobs]_vars

\* One call with a camelCase name has stored the snake_case value and one
\* call with a string that is no job type has raised.
C39_Witness ==
    \E a, b \in DOMAIN req :
        /\ req[a] # NoRequest /\ req[a].pc = "created"
        /\ req[a].job_type = "textOverlay"
        /\ jobs[req[a].job_id].job_type = "text_overlay"
        /\ req[b] # NoRequest /\ req[b].pc = "raised"
        /\ req[b].job_type = "TRIM"
        /\ req[b].error = "ValueError"

\* C40: after the two update_job_status were called with the same arguments
\* on the same row, with a status that is one of the four, the row
\* crud.update_job_status leaves is the row celery_tasks.update_job_status
\* left and no error was raised; with any other status
\* crud.update_job_status raised ValueError and left the row as it was.
C40_StatusWritesAgree ==
    [][\A r \in DOMAIN req :
          (req[r] # NoRequest /\ req[r].pc = "write" /\ req'[r].pc = "written")
          => IF req[r].status \in {"pending", "processing", "completed", "failed"}
             THEN /\ req'[r].crud.error = NoMessage
                  /\ req'[r].crud.job = jobs'[req[r].job_id]
             ELSE /\ req'[r].crud.error = "ValueError"
                  /\ req'[r].crud.job = jobs[req[r].job_id]]_vars

\* A job that had failed with an error message was written completed with a
\* result and an empty error message: both implementations leave the same
\* row, with the result and the old message.
C40_Witness ==
    \E r \in DOMAIN req :
        /\ req[r] # NoRequest
        /\ req[r].pc = "written"
        /\ req[r].status = "completed"
        /\ req[r].error_message = ""
        /\ req[r].result_data # NoData
        /\ req[r].crud.job = jobs[req[r].job_id]
        /\ jobs[req[r].job_id].error_message = "boom"
        /\ jobs[req[r].job_id].result_data # NoData
        /\ jobs[req[r].job_id].started_at # NoTime

====
